---- MODULE Spec2Model ----
(***************************************************************************)
(* simple_jobs: persistent jobs on top of Tokio tasks.                     *)
(*                                                                         *)
(* The model covers the engine, Job::submit (src/src/lib.rs), the three    *)
(* storage backends of the repository (FSJob, DieselSqliteJob and the      *)
(* in-memory MyJob of the unit tests) and the poll-until-finished loop of  *)
(* the integration tests, and the work functions of the unit tests that    *)
(* load and save the record of their own job.  The caller of submit, the   *)
(* spawned task and the observers that load records run concurrently.      *)
(***************************************************************************)
EXTENDS Integers, Sequences, FiniteSets, TLC

\* ---------------------------------------------------------------- bounds
MaxOutput == 1
MaxError == 1
MaxMeta == 1
MaxTime == 1

\* ---------------------------------------------------------------- values
\* the identities Uuid::new_v4() gives to the two calls of submit
Ids == {1, 2}
Outputs == 0..MaxOutput
Errors == 0..MaxError
Metas == 0..MaxMeta
\* the readings of SystemTime::now()
Times == 0..MaxTime

\* Output::default(), Error::default(), Metadata::default()
DefaultOutput == 0
DefaultError == 0
DefaultMetadata == 0
\* the JobInfo of the sqlite backend has no metadata field at all
NoMetadata == -1
\* the tuple loaded from MyJob carries no status
NoStatus == "none"

Backends == {"fs", "sqlite", "mem"}

\* the two outcomes of the future: Ok(result) and Err(err)
Outcomes == [kind : {"ok"}, val : Outputs] \cup [kind : {"err"}, val : Errors]
NoOutcome == [kind |-> "none", val |-> 0]

VARIABLES
    backend,    \* which implementation of the trait Job is in use
    files,      \* FSJob: job_directory, one file per id
    job_info,   \* DieselSqliteJob: the rows of table job_info, per uuid, in insertion order
    saved,      \* MyJob: the keys of the global map SAVED
    clock,      \* the latest reading of SystemTime::now()
    tie,        \* DieselSqliteJob: which of the rows of equal create_time a query returns first
    seen,       \* per job: the record its work function has loaded, if any
    cpc,        \* per job: where the caller of submit is
    tpc,        \* per job: where the spawned task is
    meta,       \* per job: the metadata given to submit
    tres,       \* per job: what the future returned
    lastLoad,   \* the latest load: its id and what it returned
    wpc,        \* the poll loop: idle, polling, returned, failed
    wid         \* the poll loop: the id it waits for

vars == <<backend, files, job_info, saved, clock, tie, seen, cpc, tpc, meta, tres,
          lastLoad, wpc, wid>>

\* ------------------------------------------------------------ the record
\* the arguments of Job::save: id, status, output, error, metadata
JobInfo(id, status, output, error, metadata) ==
    [id |-> id, status |-> status, output |-> output, error |-> error,
     metadata |-> metadata]

\* #[serde(rename_all = "lowercase")]
StatusToJson(s) ==
    CASE s = "Started" -> "started"
      [] s = "Running" -> "running"
      [] s = "Finished" -> "finished"

StatusFromJson(s) ==
    CASE s = "started" -> "Started"
      [] s = "running" -> "Running"
      [] s = "finished" -> "Finished"

\* serde_json::to_string(info): the document written to the job's file
Serialize(info) ==
    <<info.id, StatusToJson(info.status), info.output, info.error, info.metadata>>

\* serde_json::from_str(&s)
Deserialize(s) ==
    JobInfo(s[1], StatusFromJson(s[2]), s[3], s[4], s[5])

Ok(rec) == [ok |-> TRUE, rec |-> rec]
Err(kind, msg) == [ok |-> FALSE, kind |-> kind, msg |-> msg]
NoResult == Err("none", "no load yet")

\* the work function has loaded nothing
NoRecord == JobInfo(0, NoStatus, DefaultOutput, DefaultError, DefaultMetadata)

NoFile == [exists |-> FALSE, data |-> <<>>]
EmptyFile == [exists |-> TRUE, data |-> <<>>]

\* ------------------------------------------------------------- FSJob
\* File::create(job_directory.join(id)): creates the file or truncates it
FsCreate(id) == files' = [files EXCEPT ![id] = EmptyFile]

\* every job is written to one and the same file, not to a file named by its id
FsWriteAll_SharedFile(info) ==
    files' = [files EXCEPT ![1] = [exists |-> TRUE, data |-> Serialize(info)]]

\* file.write_all(serde_json::to_string(info)?.as_bytes())
FsWriteAll(info) ==
    files' = [files EXCEPT ![info.id] = [exists |-> TRUE, data |-> Serialize(info)]]

\* FSJob::load: open, read_to_string, from_str
FsLoad(id) ==
    IF ~files[id].exists
    THEN {Err("NotFound", "No such file or directory")}
    ELSE IF files[id].data = <<>>
         THEN {Err("UnexpectedEof", "EOF while parsing a value")}
         ELSE {Ok(Deserialize(files[id].data))}

\* ------------------------------------------------------ DieselSqliteJob
\* the row of JobInfoDB: uuid, status, output (the result), create_time
SqliteRow(info, now) ==
    [uuid |-> info.id, status |-> StatusToJson(info.status),
     output |-> <<info.output, info.error>>, create_time |-> now]

\* let now = SystemTime::now(): the time has stood still or has advanced
Now == {t \in Times : t >= clock}

\* diesel::insert_into(job_info::table).values(..).execute(..)
SqliteInsert(info) ==
    \E now \in Now :
        /\ clock' = now
        /\ job_info' = [job_info EXCEPT ![info.id] = Append(@, SqliteRow(info, now))]

\* the rows of the greatest create_time
Latest(rows) ==
    {i \in DOMAIN rows : \A k \in DOMAIN rows : rows[k].create_time <= rows[i].create_time}

\* a query that may put any of the rows of equal create_time first, anew each time
SqliteFirst_AnyTied(rows) == Latest(rows)

\* the row that comes first under ORDER BY create_time DESC: among rows of
\* equal create_time the query does not say which, the query plan decides
SqliteFirst(rows) ==
    IF tie = "oldest"
    THEN {i \in Latest(rows) : \A k \in Latest(rows) : i <= k}
    ELSE {i \in Latest(rows) : \A k \in Latest(rows) : i >= k}

\* DieselSqliteJob::load
SqliteLoad(id) ==
    IF job_info[id] = <<>>
    THEN {Err("Other", "Could not find id in the database.")}
    ELSE {Ok(JobInfo(job_info[id][i].uuid, StatusFromJson(job_info[id][i].status),
                     job_info[id][i].output[1], job_info[id][i].output[2],
                     NoMetadata)) : i \in SqliteFirst(job_info[id])}

\* ---------------------------------------------------------------- MyJob
\* saved.insert(id, MyJob {})
MemInsert(id) == saved' = saved \cup {id}

\* SAVED.lock().unwrap().get(&id).unwrap(), then Ok of three defaults
MemLoad(id) ==
    IF id \notin saved
    THEN {Err("panic", "called Option::unwrap() on a None value")}
    ELSE {Ok(JobInfo(id, NoStatus, DefaultOutput, DefaultError, DefaultMetadata))}

\* ------------------------------------------------------------- Job::load
LoadResults(id) ==
    CASE backend = "fs" -> FsLoad(id)
      [] backend = "sqlite" -> SqliteLoad(id)
      [] backend = "mem" -> MemLoad(id)

\* a save of the two backends whose save is one step
SaveAtomic(info) ==
    /\ backend \in {"sqlite", "mem"}
    /\ IF backend = "sqlite"
       THEN SqliteInsert(info) /\ UNCHANGED saved
       ELSE MemInsert(info.id) /\ UNCHANGED <<job_info, clock>>
    /\ UNCHANGED files

\* the first step of FSJob::save
SaveCreate(id) ==
    /\ backend = "fs"
    /\ FsCreate(id)
    /\ UNCHANGED <<job_info, saved, clock>>

\* the second step of FSJob::save
SaveWrite(info) ==
    /\ backend = "fs"
    /\ FsWriteAll(info)
    /\ UNCHANGED <<job_info, saved, clock>>

\* ------------------------------------------------------------------ Init
Init ==
    /\ backend \in Backends
    /\ files = [i \in Ids |-> NoFile]
    /\ job_info = [i \in Ids |-> <<>>]
    /\ saved = {}
    /\ clock = 0
    /\ tie \in (IF backend = "sqlite" THEN {"oldest", "newest"} ELSE {"oldest"})
    /\ seen = [i \in Ids |-> NoRecord]
    /\ cpc = [i \in Ids |-> "idle"]
    /\ tpc = [i \in Ids |-> "none"]
    /\ meta = [i \in Ids |-> DefaultMetadata]
    /\ tres = [i \in Ids |-> NoOutcome]
    /\ lastLoad = [id |-> 0, res |-> NoResult]
    /\ wpc = "idle"
    /\ wid = 0

\* ------------------------------------------------------------ Job::submit
\* Uuid::new_v4(): a fresh identity; identities are handed out in order
Fresh(j) == cpc[j] = "idle" /\ (IF j = 1 THEN TRUE ELSE cpc[j - 1] # "idle")

InitialInfo(j, m) == JobInfo(j, "Started", DefaultOutput, DefaultError, m)

\* self.save(id, Status::Started, ..) succeeds (FSJob: File::create succeeds)
SubmitSave(j, m) ==
    /\ Fresh(j)
    /\ meta' = [meta EXCEPT ![j] = m]
    /\ \/ SaveAtomic(InitialInfo(j, m)) /\ cpc' = [cpc EXCEPT ![j] = "saved"]
       \/ SaveCreate(j) /\ cpc' = [cpc EXCEPT ![j] = "creating"]
    /\ UNCHANGED <<backend, tie, seen, tpc, tres, lastLoad, wpc, wid>>

\* the error of the initial save is dropped and the work is scheduled all the same
SubmitSaveFail_Scheduled(j, m) ==
    /\ Fresh(j)
    /\ backend \in {"fs", "sqlite"}
    /\ meta' = [meta EXCEPT ![j] = m]
    /\ cpc' = [cpc EXCEPT ![j] = "failed"]
    /\ tpc' = [tpc EXCEPT ![j] = "running"]
    /\ UNCHANGED <<backend, tie, seen, files, job_info, saved, clock, tres, lastLoad, wpc, wid>>

\* self.save(..)? returns the error of File::create, of the pool or of the insert
SubmitSaveFail(j, m) ==
    /\ Fresh(j)
    /\ backend \in {"fs", "sqlite"}
    /\ meta' = [meta EXCEPT ![j] = m]
    /\ cpc' = [cpc EXCEPT ![j] = "failed"]
    /\ UNCHANGED <<backend, tie, seen, files, job_info, saved, clock, tpc, tres, lastLoad, wpc, wid>>

\* FSJob::save: write_all succeeds
SubmitWrite(j) ==
    /\ cpc[j] = "creating"
    /\ SaveWrite(InitialInfo(j, meta[j]))
    /\ cpc' = [cpc EXCEPT ![j] = "saved"]
    /\ UNCHANGED <<backend, tie, seen, tpc, meta, tres, lastLoad, wpc, wid>>

\* FSJob::save: to_string or write_all fails, the created file stays empty
SubmitWriteFail(j) ==
    /\ cpc[j] = "creating"
    /\ cpc' = [cpc EXCEPT ![j] = "failed"]
    /\ UNCHANGED <<backend, tie, seen, files, job_info, saved, clock, tpc, meta, tres, lastLoad, wpc, wid>>

\* the future is built and dropped, nothing polls it
SubmitSpawn_NotPolled(j) ==
    /\ cpc[j] = "saved"
    /\ cpc' = [cpc EXCEPT ![j] = "spawned"]
    /\ UNCHANGED <<backend, tie, seen, files, job_info, saved, clock, tpc, meta, tres, lastLoad, wpc, wid>>

\* submit saves a Running record of its own when it spawns the task
SubmitSpawn_SavesRunning(j) ==
    /\ cpc[j] = "saved"
    /\ cpc' = [cpc EXCEPT ![j] = "spawned"]
    /\ tpc' = [tpc EXCEPT ![j] = "running"]
    /\ IF backend = "sqlite"
       THEN /\ SqliteInsert(JobInfo(j, "Running", DefaultOutput, DefaultError, meta[j]))
            /\ UNCHANGED <<files, saved>>
       ELSE UNCHANGED <<files, job_info, saved, clock>>
    /\ UNCHANGED <<backend, tie, seen, meta, tres, lastLoad, wpc, wid>>

\* let fut = f(id, that); tokio::spawn(async move { .. })
SubmitSpawn(j) ==
    /\ cpc[j] = "saved"
    /\ cpc' = [cpc EXCEPT ![j] = "spawned"]
    /\ tpc' = [tpc EXCEPT ![j] = "running"]
    /\ UNCHANGED <<backend, tie, seen, files, job_info, saved, clock, meta, tres, lastLoad, wpc, wid>>

\* submit joins the spawned task before it returns
SubmitReturn_Joins(j) ==
    /\ cpc[j] = "spawned"
    /\ tpc[j] \in {"done", "panicked"}
    /\ cpc' = [cpc EXCEPT ![j] = "returned"]
    /\ UNCHANGED <<backend, tie, seen, files, job_info, saved, clock, tpc, meta, tres, lastLoad, wpc, wid>>

\* Ok(id)
SubmitReturn(j) ==
    /\ cpc[j] = "spawned"
    /\ cpc' = [cpc EXCEPT ![j] = "returned"]
    /\ UNCHANGED <<backend, tie, seen, files, job_info, saved, clock, tpc, meta, tres, lastLoad, wpc, wid>>

\* ------------------------------------------------------ the work function
\* jobinfo.id.as_fields().1: a value of the output type taken from the id
IdField(id) == id % (MaxOutput + 1)

\* the work function is handed an id of its own, not the id of the job
WorkLoad_OtherId(j) ==
    /\ tpc[j] = "running"
    /\ \E r \in LoadResults(3 - j) :
          IF r.ok
          THEN seen' = [seen EXCEPT ![j] = r.rec] /\ tpc' = [tpc EXCEPT ![j] = "read"]
          ELSE seen' = seen /\ tpc' = [tpc EXCEPT ![j] = "aborted"]
    /\ UNCHANGED <<backend, tie, files, job_info, saved, clock, cpc, meta, tres, lastLoad, wpc, wid>>

\* let j = job.load(id).unwrap(): the work function loads the record of the
\* id it was given, through the handle it was given
WorkLoad(j) ==
    /\ tpc[j] = "running"
    /\ \E r \in LoadResults(j) :
          IF r.ok
          THEN seen' = [seen EXCEPT ![j] = r.rec] /\ tpc' = [tpc EXCEPT ![j] = "read"]
          ELSE seen' = seen /\ tpc' = [tpc EXCEPT ![j] = "aborted"]
    /\ UNCHANGED <<backend, tie, files, job_info, saved, clock, cpc, meta, tres, lastLoad, wpc, wid>>

\* j.status = JobStatus::Running: the loaded record with the custom status
CustomInfo(j) ==
    JobInfo(seen[j].id, "Running", seen[j].output, seen[j].error, seen[j].metadata)

\* the work function hands its save to a detached task, which can make it
\* after the work function has returned and the task has made the final save
WorkSave_Detached(j) ==
    /\ tpc[j] \in {"read", "done"}
    /\ \/ SaveAtomic(CustomInfo(j)) /\ tpc' = [tpc EXCEPT ![j] = "wrote"]
       \/ SaveCreate(j) /\ tpc' = [tpc EXCEPT ![j] = "wcreating"]
    /\ UNCHANGED <<backend, tie, seen, cpc, meta, tres, lastLoad, wpc, wid>>

\* saver.save(&j).unwrap() inside the work function succeeds (FSJob:
\* File::create succeeds); the call returns before the work goes on
WorkSave(j) ==
    /\ tpc[j] = "read"
    /\ \/ SaveAtomic(CustomInfo(j)) /\ tpc' = [tpc EXCEPT ![j] = "wrote"]
       \/ SaveCreate(j) /\ tpc' = [tpc EXCEPT ![j] = "wcreating"]
    /\ UNCHANGED <<backend, tie, seen, cpc, meta, tres, lastLoad, wpc, wid>>

\* the save of the work function fails and unwrap() panics inside the future
WorkSaveFail(j) ==
    /\ tpc[j] = "read"
    /\ backend \in {"fs", "sqlite"}
    /\ tpc' = [tpc EXCEPT ![j] = "aborted"]
    /\ UNCHANGED <<backend, tie, seen, files, job_info, saved, clock, cpc, meta, tres, lastLoad, wpc, wid>>

\* FSJob::save of the custom record: write_all succeeds
WorkWrite(j) ==
    /\ tpc[j] = "wcreating"
    /\ SaveWrite(CustomInfo(j))
    /\ tpc' = [tpc EXCEPT ![j] = "wrote"]
    /\ UNCHANGED <<backend, tie, seen, cpc, meta, tres, lastLoad, wpc, wid>>

\* FSJob::save of the custom record: write_all fails after the truncation
WorkWriteFail(j) ==
    /\ tpc[j] = "wcreating"
    /\ tpc' = [tpc EXCEPT ![j] = "aborted"]
    /\ UNCHANGED <<backend, tie, seen, files, job_info, saved, clock, cpc, meta, tres, lastLoad, wpc, wid>>

\* the future completes with out: a work function that only loaded its
\* record returns Ok of the value it took from it; one that loaded nothing,
\* or went on to save, returns any outcome
Returns(j, out) ==
    \/ tpc[j] \in {"running", "wrote"}
    \/ tpc[j] = "read" /\ out = [kind |-> "ok", val |-> IdField(seen[j].id)]

\* ------------------------------------------------------- the spawned task
\* the task saves the outcome but leaves the status as the initial save set it
FinalInfo_StatusNotSet(j, out) ==
    IF out.kind = "ok"
    THEN JobInfo(j, "Started", out.val, DefaultError, meta[j])
    ELSE JobInfo(j, "Started", DefaultOutput, out.val, meta[j])

\* the arguments of the final save: Ok(v) gives output v and the default
\* error, Err(e) gives the default output and error e
FinalInfo(j, out) ==
    IF out.kind = "ok"
    THEN JobInfo(j, "Finished", out.val, DefaultError, meta[j])
    ELSE JobInfo(j, "Finished", DefaultOutput, out.val, meta[j])

\* a task that saves a final record again after its final save
TaskSave_Again(j, out) ==
    /\ Returns(j, out) \/ tpc[j] = "done"
    /\ tres' = [tres EXCEPT ![j] = out]
    /\ \/ SaveAtomic(FinalInfo(j, out)) /\ tpc' = [tpc EXCEPT ![j] = "done"]
       \/ SaveCreate(j) /\ tpc' = [tpc EXCEPT ![j] = "writing"]
    /\ UNCHANGED <<backend, tie, seen, cpc, meta, lastLoad, wpc, wid>>

\* let res = fut.await; match res { .. this.save(id, Status::Finished, ..) }
TaskSave(j, out) ==
    /\ Returns(j, out)
    /\ tres' = [tres EXCEPT ![j] = out]
    /\ \/ SaveAtomic(FinalInfo(j, out)) /\ tpc' = [tpc EXCEPT ![j] = "done"]
       \/ SaveCreate(j) /\ tpc' = [tpc EXCEPT ![j] = "writing"]
    /\ UNCHANGED <<backend, tie, seen, cpc, meta, lastLoad, wpc, wid>>

\* a failed final save puts the job back to be run again
TaskSaveFail_Retry(j, out) ==
    /\ Returns(j, out)
    /\ backend \in {"fs", "sqlite"}
    /\ tres' = [tres EXCEPT ![j] = out]
    /\ tpc' = [tpc EXCEPT ![j] = "running"]
    /\ UNCHANGED <<backend, tie, seen, files, job_info, saved, clock, cpc, meta, lastLoad, wpc, wid>>

\* the final save returns Err and .unwrap() panics: the task is gone
TaskSaveFail(j, out) ==
    /\ Returns(j, out)
    /\ backend \in {"fs", "sqlite"}
    /\ tres' = [tres EXCEPT ![j] = out]
    /\ tpc' = [tpc EXCEPT ![j] = "panicked"]
    /\ UNCHANGED <<backend, tie, seen, files, job_info, saved, clock, cpc, meta, lastLoad, wpc, wid>>

\* FSJob::save of the final record: write_all succeeds
TaskWrite(j) ==
    /\ tpc[j] = "writing"
    /\ SaveWrite(FinalInfo(j, tres[j]))
    /\ tpc' = [tpc EXCEPT ![j] = "done"]
    /\ UNCHANGED <<backend, tie, seen, cpc, meta, tres, lastLoad, wpc, wid>>

\* FSJob::save of the final record: write_all fails after the truncation
TaskWriteFail(j) ==
    /\ tpc[j] = "writing"
    /\ tpc' = [tpc EXCEPT ![j] = "panicked"]
    /\ UNCHANGED <<backend, tie, seen, files, job_info, saved, clock, cpc, meta, tres, lastLoad, wpc, wid>>

\* --------------------------------------------------------------- observers
\* the caller's own load right after submit has returned the id
ImmediateLoad(j) ==
    /\ cpc[j] = "returned"
    /\ cpc' = [cpc EXCEPT ![j] = "loaded"]
    /\ \E r \in LoadResults(j) : lastLoad' = [id |-> j, res |-> r]
    /\ UNCHANGED <<backend, tie, seen, files, job_info, saved, clock, tpc, meta, tres, wpc, wid>>

\* job.load(id) by any observer, for any id
Load(id) ==
    /\ \E r \in LoadResults(id) : lastLoad' = [id |-> id, res |-> r]
    /\ UNCHANGED <<backend, tie, seen, files, job_info, saved, clock, cpc, tpc, meta, tres, wpc, wid>>

\* the poll loop is entered with an id that submit returned
WaitStart(id) ==
    /\ wpc # "polling"
    /\ cpc[id] \in {"returned", "loaded"}
    /\ wpc' = "polling"
    /\ wid' = id
    /\ UNCHANGED <<backend, tie, seen, files, job_info, saved, clock, cpc, tpc, meta, tres, lastLoad>>

\* the loop breaks on the first record it loads, whatever its status
WaitNext_AnyRecord(r) ==
    IF ~r.ok THEN "failed" ELSE "returned"

\* a loop that gives up with an error when the record is not yet Finished
WaitNext_TimesOut(r) ==
    IF ~r.ok THEN "failed"
    ELSE IF r.rec.status = "Finished" THEN "returned"
    ELSE "failed"

\* what one round of the loop does with the loaded value
WaitNext(r) ==
    IF ~r.ok THEN "failed"
    ELSE IF r.rec.status = "Finished" THEN "returned"
    ELSE "polling"

\* let jj = job.load(j)?; if jj.status == Finished { break jj; } sleep(10ms)
WaitPoll ==
    /\ wpc = "polling"
    /\ \E r \in LoadResults(wid) :
          /\ lastLoad' = [id |-> wid, res |-> r]
          /\ wpc' = WaitNext(r)
    /\ UNCHANGED <<backend, tie, seen, files, job_info, saved, clock, cpc, tpc, meta, tres, wid>>

Next ==
    \/ \E j \in Ids, m \in Metas : SubmitSave(j, m)
    \/ \E j \in Ids, m \in Metas : SubmitSaveFail(j, m)
    \/ \E j \in Ids : SubmitWrite(j)
    \/ \E j \in Ids : SubmitWriteFail(j)
    \/ \E j \in Ids : SubmitSpawn(j)
    \/ \E j \in Ids : SubmitReturn(j)
    \/ \E j \in Ids, out \in Outcomes : TaskSave(j, out)
    \/ \E j \in Ids, out \in Outcomes : TaskSaveFail(j, out)
    \/ \E j \in Ids : TaskWrite(j)
    \/ \E j \in Ids : TaskWriteFail(j)
    \/ \E j \in Ids : ImmediateLoad(j)
    \/ \E id \in Ids : Load(id)
    \/ \E id \in Ids : WaitStart(id)
    \/ WaitPoll

Spec == Init /\ [][Next]_vars

\* the steps of the spawned task of job j
TaskStep(j) ==
    \/ \E out \in Outcomes : TaskSave(j, out)
    \/ \E out \in Outcomes : TaskSaveFail(j, out)
    \/ TaskWrite(j)
    \/ TaskWriteFail(j)

\* submit and the task it spawns, with no observer and no further step of the caller
EngineNext ==
    \/ \E j \in Ids, m \in Metas : SubmitSave(j, m)
    \/ \E j \in Ids, m \in Metas : SubmitSaveFail(j, m)
    \/ \E j \in Ids : SubmitWrite(j)
    \/ \E j \in Ids : SubmitWriteFail(j)
    \/ \E j \in Ids : SubmitSpawn(j)
    \/ \E j \in Ids : SubmitReturn(j)
    \/ \E j \in Ids : TaskStep(j)

\* the Tokio runtime keeps polling a spawned task whose future completes;
\* nothing is assumed about the caller of submit, and nobody loads
FairSpec == Init /\ [][EngineNext]_vars /\ \A j \in Ids : WF_vars(TaskStep(j))

\* the steps of a work function that uses the id and the handle it was given
WorkStep(j) ==
    \/ WorkLoad(j)
    \/ WorkSave(j)
    \/ WorkSaveFail(j)
    \/ WorkWrite(j)
    \/ WorkWriteFail(j)

\* submit, the task and a work function that loads and saves its own record;
\* nobody else loads
WorkNext ==
    \/ \E j \in Ids, m \in Metas : SubmitSave(j, m)
    \/ \E j \in Ids, m \in Metas : SubmitSaveFail(j, m)
    \/ \E j \in Ids : SubmitWrite(j)
    \/ \E j \in Ids : SubmitWriteFail(j)
    \/ \E j \in Ids : SubmitSpawn(j)
    \/ \E j \in Ids : SubmitReturn(j)
    \/ \E j \in Ids : TaskStep(j)
    \/ \E j \in Ids : WorkStep(j)

WorkSpec == Init /\ [][WorkNext]_vars

\* the same jobs with an observer that loads; the return of submit, which
\* touches neither the store nor the task, is left out
WorkLoadNext ==
    \/ \E j \in Ids, m \in Metas : SubmitSave(j, m)
    \/ \E j \in Ids, m \in Metas : SubmitSaveFail(j, m)
    \/ \E j \in Ids : SubmitWrite(j)
    \/ \E j \in Ids : SubmitWriteFail(j)
    \/ \E j \in Ids : SubmitSpawn(j)
    \/ \E j \in Ids : TaskStep(j)
    \/ \E j \in Ids : WorkStep(j)
    \/ \E id \in Ids : Load(id)

WorkLoadSpec == Init /\ [][WorkLoadNext]_vars

\* the integration tests: submit, the task of a work function that touches
\* nothing, and the poll loop as the only observer
WaitLoopNext ==
    \/ \E j \in Ids, m \in Metas : SubmitSave(j, m)
    \/ \E j \in Ids, m \in Metas : SubmitSaveFail(j, m)
    \/ \E j \in Ids : SubmitWrite(j)
    \/ \E j \in Ids : SubmitWriteFail(j)
    \/ \E j \in Ids : SubmitSpawn(j)
    \/ \E j \in Ids : SubmitReturn(j)
    \/ \E j \in Ids : TaskStep(j)
    \/ \E id \in Ids : WaitStart(id)
    \/ WaitPoll

WaitSpec == Init /\ [][WaitLoopNext]_vars

\* ------------------------------------------------------------ vocabulary
\* the backends that keep what is saved
Persistent == {"fs", "sqlite"}

\* any load of id: a plain load, the caller's first load, a round of the poll loop
LoadStep(id) == Load(id) \/ ImmediateLoad(id) \/ (wid = id /\ WaitPoll)

Submitted(j) == cpc[j] \in {"returned", "loaded"}

\* status Finished with the outcome Ok(v): output v, error left at its default
IsFinishedOk(r, v) ==
    r.ok /\ r.rec.status = "Finished" /\ r.rec.output = v /\ r.rec.error = DefaultError

\* status Finished with the outcome Err(e): error e, output left at its default
IsFinishedErr(r, e) ==
    r.ok /\ r.rec.status = "Finished" /\ r.rec.error = e /\ r.rec.output = DefaultOutput

\* status Started and no result yet
IsStarted(r) ==
    r.ok /\ r.rec.status = "Started" /\ r.rec.output = DefaultOutput
         /\ r.rec.error = DefaultError

\* the store holds a Finished record for j
PersistedTerminal(j) ==
    CASE backend = "fs" ->
            files[j].data # <<>> /\ Deserialize(files[j].data).status = "Finished"
      [] backend = "sqlite" ->
            \E i \in DOMAIN job_info[j] : job_info[j][i].status = "finished"
      [] backend = "mem" -> FALSE

\* ------------------------------------------------------------------- C1
\* C1: when the work returned Ok(v) and the final save succeeded, every load
\* of the id made after that save returns status Finished and the result Ok(v).
C1_LoadAfterOk ==
    [][\A id \in Ids :
          (backend \in Persistent /\ tpc[id] = "done" /\ tres[id].kind = "ok"
             /\ LoadStep(id))
          => IsFinishedOk(lastLoad'.res, tres[id].val)]_vars

\* ------------------------------------------------------------------- C2
\* C2: when the work returned Err(e) and the final save succeeded, every load
\* of the id made after that save returns status Finished, the same status as
\* for a success, and the error e unchanged.
C2_LoadAfterErr ==
    [][\A id \in Ids :
          (backend \in Persistent /\ tpc[id] = "done" /\ tres[id].kind = "err"
             /\ LoadStep(id))
          => IsFinishedErr(lastLoad'.res, tres[id].val)]_vars

\* ------------------------------------------------------------------- C3
\* C3: the load the caller makes right after submit returned the id yields
\* a record with status Started and no result.
C3_ImmediateLoadStarted ==
    [][\A id \in Ids :
          (backend \in Persistent /\ ImmediateLoad(id)) => IsStarted(lastLoad'.res)]_vars

\* ------------------------------------------------------------------- C4
\* C4: every load of an id made after submit returned it finds a record,
\* whose status is Started or a later one.
C4_LoadAfterSubmitFinds ==
    [][\A id \in Ids :
          (backend \in Persistent /\ Submitted(id) /\ LoadStep(id))
          => (lastLoad'.res.ok /\ lastLoad'.res.rec.status \in {"Started", "Running", "Finished"})]_vars

\* ------------------------------------------------------------------- C5
\* C5: once the initial save has failed, submit has returned the error, the
\* work is never scheduled and nothing is saved for that id any more.
C5_FailedSubmitSchedulesNothing ==
    [][\A j \in Ids :
          cpc[j] = "failed"
          => /\ cpc'[j] = "failed"
             /\ tpc[j] = "none" /\ tpc'[j] = "none"
             /\ tres[j] = NoOutcome /\ tres'[j] = NoOutcome
             /\ files'[j] = files[j]
             /\ job_info'[j] = job_info[j]]_vars

C5_Witness ==
    \E j \in Ids : cpc[j] = "failed" /\ backend = "fs" /\ files[j] = EmptyFile

\* ------------------------------------------------------------------- C6
\* C6: after a successful submit, with no step of the caller required, the
\* store eventually holds a Finished record, unless the final save fails.
C6_RunsToCompletion ==
    \A j \in Ids :
        (backend \in Persistent /\ cpc[j] = "spawned")
        ~> (PersistedTerminal(j) \/ tpc[j] = "panicked")

C6_Witness ==
    \E j \in Ids : cpc[j] = "spawned" /\ tpc[j] = "done" /\ PersistedTerminal(j)

\* ------------------------------------------------------------------- C7
\* C7: once the initial save and the spawn are done, submit can return in
\* every state, whatever the task is doing.
C7_SubmitDoesNotBlock ==
    \A j \in Ids : cpc[j] = "spawned" => ENABLED SubmitReturn(j)

C7_Witness ==
    \E j \in Ids :
        /\ Submitted(j) /\ tpc[j] = "running" /\ backend \in Persistent
        /\ \A r \in LoadResults(j) : IsStarted(r)

\* ------------------------------------------------------------------- C8
\* C8: the poll loop returns only a record whose status is Finished.
C8_WaitReturnsFinished ==
    [][(wpc = "polling" /\ wpc' = "returned")
          => (lastLoad'.res.ok /\ lastLoad'.id = wid
              /\ lastLoad'.res.rec.status = "Finished")]_vars

C8_Witness ==
    /\ wpc = "returned" /\ lastLoad.id = wid
    /\ lastLoad.res.ok /\ lastLoad.res.rec.status = "Finished"

\* ------------------------------------------------------------------- C9
\* C9: a load of an id for which nothing was ever saved fails with an error
\* of the kind NotFound.
C9_LoadUnknownNotFound ==
    [][\A id \in Ids :
          (cpc[id] = "idle" /\ Load(id))
          => (~lastLoad'.res.ok /\ lastLoad'.res.kind = "NotFound")]_vars

\* ------------------------------------------------------------------ C10
\* C10: at every point after the initial save, a load of the id returns the
\* metadata that was given to submit.
C10_MetadataRoundTrips ==
    [][\A id \in Ids :
          (backend \in Persistent /\ cpc[id] \in {"saved", "spawned", "returned", "loaded"}
             /\ LoadStep(id) /\ lastLoad'.res.ok)
          => lastLoad'.res.rec.metadata = meta[id]]_vars

\* ------------------------------------------------------------------ C11
\* what the engine has saved for id so far: the initial record and, once the
\* future has returned, the final one (metadata where the backend keeps it)
OwnRecord(id, rec) ==
    /\ rec.id = id
    /\ backend = "fs" => rec.metadata = meta[id]
    /\ \/ rec.status = "Started" /\ rec.output = DefaultOutput /\ rec.error = DefaultError
       \/ /\ tres[id] # NoOutcome
          /\ rec.status = FinalInfo(id, tres[id]).status
          /\ rec.output = FinalInfo(id, tres[id]).output
          /\ rec.error = FinalInfo(id, tres[id]).error

\* C11: with two submits running concurrently, whatever a load of an id
\* returns is a record the engine saved for that id, never one of the other job.
C11_NoInterference ==
    \A id \in Ids :
        backend \in Persistent
        => \A r \in LoadResults(id) : r.ok => OwnRecord(id, r.rec)

C11_Witness ==
    /\ backend = "fs"
    /\ tpc[1] = "done" /\ tpc[2] = "done"
    /\ meta[1] # meta[2] /\ tres[1] # tres[2]
    /\ lastLoad.id = 1 /\ lastLoad.res.ok
    /\ lastLoad.res.rec = FinalInfo(1, tres[1])
    /\ \A r \in LoadResults(2) : r.ok /\ r.rec = FinalInfo(2, tres[2])

\* ------------------------------------------------------------------ C12
\* the stage of a status: Started, then the custom Running, then Finished
Rank(status) ==
    CASE status = "Started" -> 0
      [] status = "Running" -> 1
      [] status = "Finished" -> 2

\* C12: once a load of an id has shown a status, no later load of the id
\* shows a status of an earlier stage.
C12_StatusMonotonic ==
    \A id \in Ids :
        (backend \in Persistent /\ lastLoad.id = id /\ lastLoad.res.ok)
        => \A r \in LoadResults(id) :
              r.ok => Rank(r.rec.status) >= Rank(lastLoad.res.rec.status)

\* a load showed the custom Running status of job 1, whose three rows have
\* one create_time, and the job has completed since
C12_Witness ==
    /\ backend = "sqlite"
    /\ tpc[1] = "done"
    /\ Len(job_info[1]) = 3
    /\ \A i \in DOMAIN job_info[1] : job_info[1][i].create_time = job_info[1][1].create_time
    /\ lastLoad.id = 1 /\ lastLoad.res.ok
    /\ lastLoad.res.rec.status = "Running"

\* ------------------------------------------------------------------ C13
\* the records the store holds for j (MyJob keeps the key only)
PersistedRecords(j) ==
    CASE backend = "fs" ->
            IF files[j].data = <<>> THEN {} ELSE {Deserialize(files[j].data)}
      [] backend = "sqlite" ->
            {JobInfo(job_info[j][i].uuid, StatusFromJson(job_info[j][i].status),
                     job_info[j][i].output[1], job_info[j][i].output[2], NoMetadata) :
                i \in DOMAIN job_info[j]}
      [] backend = "mem" -> {}

\* C13: a persisted record that is not Finished carries no result (output and
\* error are the defaults of the initial save), and a persisted record that
\* is Finished carries the outcome of the work.
C13_ResultIffTerminal ==
    \A j \in Ids : \A rec \in PersistedRecords(j) :
        /\ rec.status # "Finished"
              => rec.output = DefaultOutput /\ rec.error = DefaultError
        /\ rec.status = "Finished"
              => /\ tres[j] # NoOutcome
                 /\ rec.output = FinalInfo(j, tres[j]).output
                 /\ rec.error = FinalInfo(j, tres[j]).error

\* the table holds the Started row of job 1 with no result and its Finished
\* row with the outcome Ok(1)
C13_Witness ==
    /\ backend = "sqlite"
    /\ Len(job_info[1]) = 2
    /\ job_info[1][1].status = "started" /\ job_info[1][1].output = <<DefaultOutput, DefaultError>>
    /\ job_info[1][2].status = "finished" /\ job_info[1][2].output = <<1, DefaultError>>
    /\ tres[1] = [kind |-> "ok", val |-> 1]

\* ------------------------------------------------------------------ C14
\* C14: once a load of an id has returned Finished, every later load of the
\* id returns that same record, and after its final save the engine changes
\* nothing that the store holds for the id.
C14_TerminalAbsorbing ==
    [][\A id \in Ids :
          /\ (backend \in Persistent /\ lastLoad.id = id /\ lastLoad.res.ok
               /\ lastLoad.res.rec.status = "Finished" /\ LoadStep(id))
              => lastLoad'.res = lastLoad.res
          /\ tpc[id] = "done"
              => /\ files'[id] = files[id]
                 /\ job_info'[id] = job_info[id]
                 /\ (id \in saved) = (id \in saved')]_vars

\* job 1 made a custom save and completed, and a load of it returned Finished
C14_Witness ==
    /\ backend \in Persistent
    /\ tpc[1] = "done"
    /\ seen[1] # NoRecord
    /\ lastLoad.id = 1 /\ lastLoad.res.ok
    /\ lastLoad.res.rec.status = "Finished"
    /\ lastLoad.res.rec.output = tres[1].val

\* ------------------------------------------------------------------ C15
\* the future of job j has completed: the task has its outcome
Completed(j) == tres[j] # NoOutcome

\* C15: the work of a job is started only by its submit, once, and its future
\* completes once: after the outcome is there, whether Ok or Err and whether
\* the final save succeeded or failed, the job never runs again and its
\* outcome never changes.
C15_WorkInvokedOnce ==
    [][\A j \in Ids :
          /\ (tpc[j] # "running" /\ tpc'[j] = "running")
                => tpc[j] = "none" /\ cpc[j] = "saved" /\ ~Completed(j)
          /\ Completed(j) => tpc'[j] \notin {"none", "running"} /\ tres'[j] = tres[j]]_vars

\* the work returned Err and the final save failed; nothing runs it again
C15_Witness ==
    /\ tpc[1] = "panicked"
    /\ tres[1].kind = "err"
    /\ cpc[1] = "returned"

\* ------------------------------------------------------------------ C16
\* C16: in the table, which keeps a row for every save, a load of an id
\* returns the row of the most recent save of the id, also when rows of the
\* id have equal create_time.
C16_LoadsMostRecentSave ==
    \A id \in Ids :
        (backend = "sqlite" /\ job_info[id] # <<>>)
        => /\ SqliteFirst(job_info[id]) = {Len(job_info[id])}
           /\ \A r \in LoadResults(id) :
                 /\ r.ok
                 /\ StatusToJson(r.rec.status) = job_info[id][Len(job_info[id])].status
                 /\ <<r.rec.output, r.rec.error>> = job_info[id][Len(job_info[id])].output

\* ------------------------------------------------------------------ C17
\* every save of j so far has succeeded and none is in progress
SavesSettled(j) ==
    /\ cpc[j] \in {"saved", "spawned", "returned", "loaded"}
    /\ tpc[j] \in {"none", "running", "done"}

\* the record given to the last save of j
LastSaved(j) ==
    IF tpc[j] = "done" THEN FinalInfo(j, tres[j]) ELSE InitialInfo(j, meta[j])

\* C17: after successful saves of an id, with no save in progress, a load of
\* the id returns exactly the record given to the last save: id, status,
\* output, error and metadata (FSJob and MyJob).
C17_SaveLoadRoundTrip ==
    \A j \in Ids :
        (backend \in {"fs", "mem"} /\ SavesSettled(j))
        => \A r \in LoadResults(j) : r.ok /\ r.rec = LastSaved(j)

\* ------------------------------------------------------------------ C18
\* C18: the poll loop has no timeout. Every round is a fresh load of the id;
\* a round whose load succeeds with a record that is not Finished leaves the
\* loop polling, and the loop ends only with a Finished record that the store
\* holds or with the error of a failed load.
C18_WaitEndsOnlyOnTerminalOrError ==
    [][/\ WaitPoll
          => /\ lastLoad'.id = wid /\ lastLoad'.res \in LoadResults(wid)
             /\ (lastLoad'.res.ok /\ lastLoad'.res.rec.status # "Finished")
                   => wpc' = "polling"
       /\ (wpc = "polling" /\ wpc' # "polling")
          => \/ /\ wpc' = "returned"
                /\ lastLoad'.res.ok /\ lastLoad'.res.rec.status = "Finished"
                /\ backend \in Persistent => PersistedTerminal(wid)
             \/ /\ wpc' = "failed"
                /\ ~lastLoad'.res.ok]_vars

\* the final save of the job failed, its record stays Started, and the loop
\* has loaded it once more and goes on polling
C18_Witness ==
    /\ backend = "sqlite"
    /\ wpc = "polling" /\ wid = 1
    /\ tpc[1] = "panicked"
    /\ lastLoad.id = 1 /\ IsStarted(lastLoad.res)

\* ------------------------------------------------------------------ C19
\* the saves of j that have succeeded so far
SavesDone(j) ==
    IF cpc[j] \in {"idle", "creating", "failed"} THEN 0
    ELSE IF tpc[j] = "done" THEN 2
    ELSE 1

\* the rows of j that the engine saved: the work function saves Running only
EngineRows(j) == SelectSeq(job_info[j], LAMBDA row : row.status # "running")

\* C19: the engine saves a job twice and in this order: the Started record
\* with the metadata before the work is scheduled, the Finished record with
\* the outcome after the work has completed, both under the id of the job.
\* It saves nothing in between: the only other record the store ever holds
\* is the one the work function saved itself. The table shows it row by
\* row, the file by its document.
C19_TwoSavesInOrder ==
    \A j \in Ids :
        /\ backend = "sqlite"
              => /\ Len(EngineRows(j)) = SavesDone(j)
                 /\ Len(job_info[j]) <= SavesDone(j) + 1
                 /\ Len(job_info[j]) >= 1
                       => job_info[j][1] =
                             SqliteRow(InitialInfo(j, meta[j]), job_info[j][1].create_time)
                 /\ SavesDone(j) = 2
                       => /\ Completed(j)
                          /\ job_info[j][Len(job_info[j])] =
                                SqliteRow(FinalInfo(j, tres[j]),
                                          job_info[j][Len(job_info[j])].create_time)
                 /\ \A i \in DOMAIN job_info[j] :
                       job_info[j][i].status = "running"
                       => job_info[j][i] =
                             SqliteRow(CustomInfo(j), job_info[j][i].create_time)
        /\ (backend = "fs" /\ files[j].data # <<>>)
              => /\ SavesDone(j) >= 1
                 /\ files[j].data \in {Serialize(InitialInfo(j, meta[j])),
                                        Serialize(CustomInfo(j)),
                                        Serialize(FinalInfo(j, tres[j]))}
                 /\ SavesDone(j) = 2 => files[j].data = Serialize(FinalInfo(j, tres[j]))
                 /\ tpc[j] \in {"none", "running", "read"}
                       => files[j].data = Serialize(InitialInfo(j, meta[j]))
        /\ tpc[j] # "none" => SavesDone(j) >= 1

\* both jobs have completed; the work function of job 1 made a save of its
\* own between the two saves of the engine, that of job 2 made none
C19_Witness ==
    /\ backend = "sqlite"
    /\ \A j \in Ids : Submitted(j) /\ tpc[j] = "done"
    /\ Len(job_info[1]) = 3 /\ Len(job_info[2]) = 2

\* ------------------------------------------------------------------ C20
\* C20: when the final save of a job has failed, submit has returned or still
\* returns its id all the same, the task is gone, every load of the id returns
\* the Started record as for a job that is still running, and a poll loop on
\* the id has not ended.
C20_FailedFinalSaveLooksRunning ==
    \A j \in Ids :
        (backend \in Persistent /\ tpc[j] = "panicked")
        => /\ cpc[j] \in {"spawned", "returned", "loaded"}
           /\ \A r \in LoadResults(j) : IsStarted(r)
           /\ wid = j => wpc = "polling"

\* ------------------------------------------------------------------ C23
\* C23: on FSJob a load of an id made while the final save of the id is in
\* progress returns the record saved before or the record being saved, never
\* an error and never an empty or partial record.
C23_FsLoadDuringSave ==
    \A j \in Ids :
        (backend = "fs" /\ tpc[j] = "writing")
        => \A r \in LoadResults(j) :
              /\ r.ok
              /\ r.rec \in {InitialInfo(j, meta[j]), FinalInfo(j, tres[j])}

\* ------------------------------------------------------------------ C22
\* C22: the work function runs only after the initial save of its job has
\* succeeded and submit has its id; a load of that id from inside the work
\* function succeeds and returns the record of that job, and when the work
\* function returns the value it took from the record, that value is the
\* outcome the task saves.
C22_WorkLoadsOwnRecord ==
    [][\A j \in Ids :
          /\ tpc[j] # "none" => cpc[j] \in {"spawned", "returned", "loaded"}
          /\ tpc[j] = "running"
                => \A r \in LoadResults(j) :
                      /\ r.ok /\ r.rec.id = j
                      /\ backend \in Persistent => IsStarted(r)
                      /\ backend = "fs" => r.rec.metadata = meta[j]
          /\ WorkLoad(j) => tpc'[j] = "read" /\ seen'[j].id = j
          /\ (tpc[j] = "read" /\ tpc'[j] \in {"writing", "done", "panicked"})
                => tres'[j] = [kind |-> "ok", val |-> IdField(j)]
          /\ (backend \in Persistent /\ tpc[j] = "read" /\ tpc'[j] = "done")
                => FinalInfo(j, [kind |-> "ok", val |-> IdField(j)]).output
                      \in {rec.output : rec \in {x \in PersistedRecords(j)' :
                                                    x.status = "Finished"}}]_vars

\* the work function of job 1 loaded the record of job 1 while job 2 was
\* saved as well, returned the value taken from the id, and the file holds it
C22_Witness ==
    /\ backend = "fs"
    /\ cpc[2] # "idle"
    /\ tpc[1] = "done"
    /\ seen[1] = InitialInfo(1, meta[1])
    /\ tres[1] = [kind |-> "ok", val |-> IdField(1)]
    /\ IdField(1) # DefaultOutput
    /\ files[1].data = Serialize(FinalInfo(1, tres[1]))

\* ------------------------------------------------------------------ C21
\* the future of j completes and the task starts its final save
TerminalSaveStep(j) == \E out \in Outcomes : TaskSave(j, out)

====
